---- MODULE Spec2Model ----
(***************************************************************************)
(* Move-history state machine and engine gating of ChessGame (src/main.py). *)
(*                                                                         *)
(* The rules collaborator (python-chess chess.Board) and the opponent      *)
(* collaborator (chess.engine) are libraries outside the repository.  The  *)
(* board is represented by its move stack: chess.Board.push appends to     *)
(* move_stack and flips the turn, chess.Board.pop removes the tail and     *)
(* flips it back, chess.Board.reset empties it, so the position is a       *)
(* function of the stack and the side to move is its parity.  Legality,    *)
(* game end, piece lookup and notation are small total oracles over the    *)
(* stack: a four-square board with one piece per side, white's reaching    *)
(* the squares at distance one or two and black's those at distance one.   *)
(*                                                                         *)
(* The evaluators draw_board calls on the position (square control, weak   *)
(* squares, square mobility) read only the pieces on the 64 squares.  They *)
(* are modelled over a piece placement of their own, position, under the   *)
(* specification EvalSpec, which draws the placement from a bounded set    *)
(* and applies them as draw_board does; Spec leaves that part idle.        *)
(***************************************************************************)
EXTENDS Integers, Sequences, FiniteSets, TLC

VARIABLES
    board,                  \* self.board.move_stack (the position)
    san_history,            \* self.san_history
    redo_stack,             \* self.redo_stack, items <<move, san>>
    last_move,              \* self.last_move
    history_last_move_san,  \* self.history_last_move_san
    allow_engine_move,      \* self.allow_engine_move
    engine_enabled,         \* self.engine_enabled
    mode,                   \* self.mode
    original_mode,          \* self.original_mode
    engine_side,            \* self.engine_side
    engine,                 \* self.engine is not None
    engine_thinking,        \* self.engine_thinking
    selected_square,        \* self.selected_square
    valid_moves,            \* self.valid_moves
    plays_in_flight,        \* calls of self.engine.play that have not returned
    position,               \* the pieces of self.board, by square (EvalSpec)
    show_weak_squares,      \* self.show_weak_squares
    show_control,           \* self.show_control
    square_color,           \* square_color of each square in the last draw_board
    has_balanced_control,   \* the squares the last draw_board crossed
    weak_squares,           \* weak_squares of the last draw_board
    mobility,               \* mobility of each square in the last draw_board
    drawn                   \* draw_board has run

vars == <<board, san_history, redo_stack, last_move, history_last_move_san,
          allow_engine_move, engine_enabled, mode, original_mode, engine_side,
          engine, engine_thinking, selected_square, valid_moves,
          plays_in_flight, position, show_weak_squares, show_control,
          square_color, has_balanced_control, weak_squares, mobility, drawn>>

\* Longest move stack explored.
MaxPlies == 3

\* Most pieces on a placement the evaluators are applied to.
MaxPieces == 2

(***************************************************************************)
(* Values                                                                  *)
(***************************************************************************)
WHITE == "white"
BLACK == "black"

\* Python None for a move, a notation, a square and a piece.
NoMove == <<>>
NoSan == <<>>
NoSquare == -1
NoPiece == "none"

Squares == {0, 1, 2, 3}

\* The board of the evaluators: chess.SQUARES, files and ranks 0..7.
DIMENSION == 8
SQUARES == 0 .. (DIMENSION * DIMENSION - 1)
chess_square(x, y) == y * DIMENSION + x
square_file(sq) == sq % DIMENSION
square_rank(sq) == sq \div DIMENSION

\* Pieces by their symbol: the pawns, and one other piece of each color.
WhitePawn == "P"
BlackPawn == "p"
PieceKinds == {WhitePawn, BlackPawn, "N", "q"}

EmptyPosition == [sq \in SQUARES |-> NoPiece]

\* self.weak_squares as __init__ and draw_board begin it, and the mobility
\* of a board not yet drawn.
NoWeakSquares == [c \in {WHITE, BLACK} |-> {}]
NoMobility == [sq \in SQUARES |-> 0]

\* The screen before anything is drawn on it.
NoColors == [sq \in SQUARES |-> <<0, 0, 0>>]

(***************************************************************************)
(* Rules collaborator                                                      *)
(***************************************************************************)
\* board.turn: white moves first, every push and pop flips the side.
turn(b) == IF Len(b) % 2 = 0 THEN WHITE ELSE BLACK

\* board.piece_at(square).color: white's piece stands on 0, black's on 2.
piece_at(b, square) ==
    IF square = 0 THEN WHITE ELSE IF square = 2 THEN BLACK ELSE NoPiece

Distance(a, c) == IF a > c THEN a - c ELSE c - a

\* How far the piece of a side moves.
Reach(side) == IF side = WHITE THEN {1, 2} ELSE {1}

\* board.is_game_over(): the last move took the opposing piece.
is_game_over(b) ==
    /\ Len(b) > 0
    /\ piece_at(b, b[Len(b)][2]) # NoPiece

\* board.legal_moves: the side to move moves its piece within its reach;
\* none once the game is over.
legal_moves(b) ==
    IF is_game_over(b) THEN {}
    ELSE {m \in Squares \X Squares :
            /\ piece_at(b, m[1]) = turn(b)
            /\ Distance(m[1], m[2]) \in Reach(turn(b))
            /\ piece_at(b, m[2]) # turn(b)}

\* The text board.san(move) returns: the capture mark and the target square.
san_text(b, move) ==
    <<IF piece_at(b, move[2]) # NoPiece THEN "x" ELSE "-", move[2]>>

\* The moves for which board.san(move) raises.
san_raises(b, move) == move[2] = 3

\* try: san = self.board.san(move) / except Exception: san = None
try_san(b, move) == IF san_raises(b, move) THEN NoSan ELSE san_text(b, move)

(***************************************************************************)
(* The object's fields as one record, and the methods as operators on it   *)
(***************************************************************************)
Cur ==
    [board |-> board, san_history |-> san_history, redo_stack |-> redo_stack,
     last_move |-> last_move, history_last_move_san |-> history_last_move_san,
     allow_engine_move |-> allow_engine_move, engine_enabled |-> engine_enabled,
     mode |-> mode, original_mode |-> original_mode, engine_side |-> engine_side,
     engine |-> engine, engine_thinking |-> engine_thinking,
     selected_square |-> selected_square, valid_moves |-> valid_moves,
     plays_in_flight |-> plays_in_flight]

Becomes(t) ==
    /\ board' = t.board
    /\ san_history' = t.san_history
    /\ redo_stack' = t.redo_stack
    /\ last_move' = t.last_move
    /\ history_last_move_san' = t.history_last_move_san
    /\ allow_engine_move' = t.allow_engine_move
    /\ engine_enabled' = t.engine_enabled
    /\ mode' = t.mode
    /\ original_mode' = t.original_mode
    /\ engine_side' = t.engine_side
    /\ engine' = t.engine
    /\ engine_thinking' = t.engine_thinking
    /\ selected_square' = t.selected_square
    /\ valid_moves' = t.valid_moves
    /\ plays_in_flight' = t.plays_in_flight
    /\ UNCHANGED <<position, show_weak_squares, show_control, square_color,
                   has_balanced_control, weak_squares, mobility, drawn>>

Last(q) == q[Len(q)]
ButLast(q) == SubSeq(q, 1, Len(q) - 1)

\* ChessGame.__init__ with the menu's choice; started is whether
\* SimpleEngine.popen_uci succeeded.
init_game(m, side, started) ==
    [board |-> <<>>, san_history |-> <<>>, redo_stack |-> <<>>,
     last_move |-> NoMove, history_last_move_san |-> NoSan,
     allow_engine_move |-> TRUE, engine_enabled |-> TRUE,
     mode |-> IF m = "pve" /\ ~started THEN "pvp" ELSE m,
     original_mode |-> m, engine_side |-> side,
     engine |-> (m = "pve" /\ started), engine_thinking |-> FALSE,
     selected_square |-> NoSquare, valid_moves |-> {}, plays_in_flight |-> 0]

\* show_menu: the three choices that start a game.
MenuChoices == {<<"pvp", BLACK>>, <<"pve", BLACK>>, <<"pve", WHITE>>}

\* self.allow_engine_move = False at the end of undo_to_human_turn.
block_engine_skipped(s) == s
block_engine(s) == [s EXCEPT !.allow_engine_move = FALSE]

\* self.redo_stack = [] after a new move, in handle_click and in
\* make_engine_move.
forget_undone_skipped(s) == s
forget_undone(s) == [s EXCEPT !.redo_stack = <<>>]

\* The tail of undo_move and undo_to_human_turn: last_move and the last
\* notation are read back from the tails of the stacks.
refresh_last(s) ==
    IF Len(s.board) > 0
    THEN [s EXCEPT !.last_move = Last(s.board),
                   !.history_last_move_san =
                       IF Len(s.san_history) > 0 THEN Last(s.san_history)
                       ELSE NoSan]
    ELSE [s EXCEPT !.last_move = NoMove, !.history_last_move_san = NoSan]

\* san = self.san_history.pop() if len(self.san_history) > 0 else None
\* move = self.board.pop()
pop_san_dropped(s) == NoSan
pop_san(s) == IF Len(s.san_history) > 0 THEN Last(s.san_history) ELSE NoSan
pop_ply(s) ==
    [s EXCEPT !.san_history = IF Len(@) > 0 THEN ButLast(@) ELSE @,
              !.board = ButLast(@)]

\* undo_move that, with no move to undo, blocks the engine.
undo_move_blocks(s) ==
    IF Len(s.board) > 0
    THEN LET item == <<Last(s.board), pop_san(s)>>
             t == pop_ply(s)
         IN refresh_last([t EXCEPT !.redo_stack = Append(@, item)])
    ELSE block_engine(s)

undo_move(s) ==
    IF Len(s.board) > 0
    THEN LET item == <<Last(s.board), pop_san(s)>>
             t == pop_ply(s)
         IN refresh_last([t EXCEPT !.redo_stack = Append(@, item)])
    ELSE s

redo_move(s) ==
    IF Len(s.redo_stack) > 0
    THEN LET item == Last(s.redo_stack)
             move == item[1]
             san == item[2]
         IN [s EXCEPT !.redo_stack = ButLast(@),
                      !.board = Append(@, move),
                      !.last_move = move,
                      !.history_last_move_san = IF san # NoSan THEN san ELSE @,
                      !.san_history = IF san # NoSan THEN Append(@, san) ELSE @]
    ELSE s

\* undo_to_human_turn that never takes more than one ply.
undo_to_human_turn_single(s) == block_engine(undo_move(s))

undo_to_human_turn(s) ==
    IF s.mode # "pve" \/ Len(s.board) = 0
    THEN undo_move(s)
    ELSE LET popped ==
                 IF turn(s.board) = s.engine_side /\ Len(s.board) >= 2
                 THEN LET item1 == <<Last(s.board), pop_san(s)>>
                          t1 == pop_ply(s)
                          item2 == <<Last(t1.board), pop_san(t1)>>
                          t2 == pop_ply(t1)
                      IN [t2 EXCEPT !.redo_stack = <<item2, item1>> \o @]
                 ELSE IF Len(s.board) >= 1
                 THEN LET item == <<Last(s.board), pop_san(s)>>
                          t == pop_ply(s)
                      IN [t EXCEPT !.redo_stack = Append(@, item)]
                 ELSE s
         IN block_engine(refresh_last(popped))

clear_selection(s) == [s EXCEPT !.selected_square = NoSquare, !.valid_moves = {}]

select(s, square) ==
    [s EXCEPT !.selected_square = square,
              !.valid_moves = {m \in legal_moves(s.board) : m[1] = square}]

\* handle_click past its guard, on a board square.  The board of the model
\* has no pawns, so the move is always chess.Move(selected_square, square).
click_on_own_turn(s, square) ==
    IF s.selected_square # NoSquare
    THEN LET move == <<s.selected_square, square>> IN
         IF move \in legal_moves(s.board)
         THEN LET san == try_san(s.board, move) IN
              [forget_undone(s) EXCEPT
                        !.board = Append(@, move),
                        !.last_move = move,
                        !.history_last_move_san = IF san # NoSan THEN san ELSE @,
                        !.san_history = IF san # NoSan THEN Append(@, san) ELSE @,
                        !.allow_engine_move = TRUE,
                        !.selected_square = NoSquare,
                        !.valid_moves = {}]
         ELSE IF piece_at(s.board, square) = turn(s.board)
              THEN select(s, square)
              ELSE clear_selection(s)
    ELSE IF piece_at(s.board, square) = turn(s.board)
         THEN select(s, square)
         ELSE s

\* handle_click that lets a click through on the engine's turn too.
handle_click_any_turn(s, square) == click_on_own_turn(s, square)

\* handle_click: in "pve" a click on the engine's turn returns at once.
handle_click(s, square) ==
    IF s.mode = "pve" /\ turn(s.board) = s.engine_side
    THEN s
    ELSE click_on_own_turn(s, square)

\* handle_button_click, one operator per button.
click_back(s) == clear_selection(undo_move(s))

click_forward(s) == clear_selection(redo_move(s))

\* The engine button whose enable branch leaves the mode as it is.
click_engine_keeps_mode(s) ==
    IF s.original_mode = "pve"
    THEN IF s.engine_enabled
         THEN [s EXCEPT !.engine_enabled = FALSE,
                        !.mode = "pvp",
                        !.allow_engine_move = FALSE]
         ELSE [s EXCEPT !.engine_enabled = TRUE,
                        !.allow_engine_move = TRUE]
    ELSE s

click_engine(s) ==
    IF s.original_mode = "pve"
    THEN IF s.engine_enabled
         THEN [s EXCEPT !.engine_enabled = FALSE, !.mode = "pvp",
                        !.allow_engine_move = FALSE]
         ELSE [s EXCEPT !.engine_enabled = TRUE, !.mode = s.original_mode,
                        !.allow_engine_move = TRUE]
    ELSE s

\* run, KEYDOWN K_z.
key_z(s) ==
    IF Len(s.board) > 0
    THEN clear_selection(IF s.mode = "pve" /\ Len(s.board) >= 2
                         THEN undo_to_human_turn(s)
                         ELSE undo_move(s))
    ELSE s

key_r_keeps_undone(s) ==
    [s EXCEPT !.board = <<>>, !.selected_square = NoSquare, !.valid_moves = {},
              !.last_move = NoMove, !.san_history = <<>>,
              !.history_last_move_san = NoSan, !.allow_engine_move = TRUE]

\* run, KEYDOWN K_r.
key_r(s) ==
    [s EXCEPT !.board = <<>>, !.selected_square = NoSquare, !.valid_moves = {},
              !.last_move = NoMove, !.redo_stack = <<>>, !.san_history = <<>>,
              !.history_last_move_san = NoSan, !.allow_engine_move = TRUE]

engine_turn_reentrant(s) ==
    /\ s.mode = "pve"
    /\ turn(s.board) = s.engine_side
    /\ ~is_game_over(s.board)
    /\ s.allow_engine_move
    /\ s.engine_enabled

\* run, the condition under which the loop calls make_engine_move.
engine_turn(s) ==
    /\ s.mode = "pve"
    /\ turn(s.board) = s.engine_side
    /\ ~is_game_over(s.board)
    /\ s.allow_engine_move
    /\ s.engine_enabled
    /\ ~s.engine_thinking

\* make_engine_move up to the call of engine.play, which blocks the loop
\* until it returns.
engine_request(s) ==
    IF s.engine /\ ~is_game_over(s.board)
    THEN [s EXCEPT !.engine_thinking = TRUE, !.plays_in_flight = @ + 1]
    ELSE s

\* run, the end of a loop iteration.
run_engine_step(s) == IF engine_turn(s) THEN engine_request(s) ELSE s

\* The engine's reply that empties redo_stack whether or not a move came.
engine_result_forgets(s, move) ==
    LET t == IF move # NoMove
             THEN LET san == try_san(s.board, move) IN
                  [s EXCEPT !.board = Append(@, move),
                            !.last_move = move,
                            !.history_last_move_san =
                                IF san # NoSan THEN san ELSE @,
                            !.san_history =
                                IF san # NoSan THEN Append(@, san) ELSE @]
             ELSE s
    IN [t EXCEPT !.redo_stack = <<>>,
                 !.engine_thinking = FALSE,
                 !.plays_in_flight = @ - 1]

\* make_engine_move from the return of engine.play with result.move.
engine_result(s, move) ==
    LET t == IF move # NoMove
             THEN LET san == try_san(s.board, move) IN
                  [forget_undone(s) EXCEPT
                            !.board = Append(@, move),
                            !.last_move = move,
                            !.history_last_move_san =
                                IF san # NoSan THEN san ELSE @,
                            !.san_history =
                                IF san # NoSan THEN Append(@, san) ELSE @]
             ELSE s
    IN [t EXCEPT !.engine_thinking = FALSE, !.plays_in_flight = @ - 1]

(***************************************************************************)
(* The control loop                                                        *)
(***************************************************************************)
Init ==
    \E c \in MenuChoices, started \in BOOLEAN :
        /\ (c[1] = "pvp" => started)
        /\ LET g == init_game(c[1], c[2], started) IN
           /\ board = g.board
           /\ san_history = g.san_history
           /\ redo_stack = g.redo_stack
           /\ last_move = g.last_move
           /\ history_last_move_san = g.history_last_move_san
           /\ allow_engine_move = g.allow_engine_move
           /\ engine_enabled = g.engine_enabled
           /\ mode = g.mode
           /\ original_mode = g.original_mode
           /\ engine_side = g.engine_side
           /\ engine = g.engine
           /\ engine_thinking = g.engine_thinking
           /\ selected_square = g.selected_square
           /\ valid_moves = g.valid_moves
           /\ plays_in_flight = g.plays_in_flight
           /\ position = EmptyPosition
           /\ show_weak_squares = TRUE
           /\ show_control = TRUE
           /\ square_color = NoColors
           /\ has_balanced_control = {}
           /\ weak_squares = NoWeakSquares
           /\ mobility = NoMobility
           /\ drawn = FALSE

\* MOUSEBUTTONDOWN on a board square.
ClickSquare ==
    /\ ~engine_thinking
    /\ \E square \in Squares :
         /\ Len(handle_click(Cur, square).board) <= MaxPlies
         /\ Becomes(handle_click(Cur, square))

\* MOUSEBUTTONDOWN on the back button.
ClickBack == ~engine_thinking /\ Becomes(click_back(Cur))

\* MOUSEBUTTONDOWN on the forward button.
ClickForward == ~engine_thinking /\ Becomes(click_forward(Cur))

\* MOUSEBUTTONDOWN on the engine button.
ClickEngine == ~engine_thinking /\ Becomes(click_engine(Cur))

KeyZ == ~engine_thinking /\ Becomes(key_z(Cur))

KeyR == ~engine_thinking /\ Becomes(key_r(Cur))

\* The end of a loop iteration: the engine is asked for a move.
EngineRequest ==
    /\ engine_turn(Cur)
    /\ Len(board) < MaxPlies
    /\ Becomes(run_engine_step(Cur))

\* engine.play returns: a legal move, or no move.
EngineReply ==
    /\ engine_thinking
    /\ \E move \in legal_moves(board) \cup {NoMove} :
         Becomes(engine_result(Cur, move))

Next ==
    \/ ClickSquare
    \/ ClickBack
    \/ ClickForward
    \/ ClickEngine
    \/ KeyZ
    \/ KeyR
    \/ EngineRequest
    \/ EngineReply

Spec == Init /\ [][Next]_vars

(***************************************************************************)
(* The evaluators of draw_board                                            *)
(***************************************************************************)
RECURSIVE SumSeq(_)
SumSeq(q) == IF q = <<>> THEN 0 ELSE Head(q) + SumSeq(Tail(q))

\* 0 <= x < 8 and 0 <= y < 8
on_board(x, y) == x >= 0 /\ x < DIMENSION /\ y >= 0 /\ y < DIMENSION

\* The eight queen directions and the eight knight offsets, as <<dx, dy>>.
rook_directions == <<<<0, 1>>, <<0, -1>>, <<1, 0>>, <<-1, 0>>>>
directions ==
    rook_directions \o <<<<1, 1>>, <<1, -1>>, <<-1, 1>>, <<-1, -1>>>>
knight_moves ==
    <<<<2, 1>>, <<2, -1>>, <<-2, 1>>, <<-2, -1>>,
      <<1, 2>>, <<1, -2>>, <<-1, 2>>, <<-1, -2>>>>

\* The while loop of one direction, entered at (x, y): it counts the empty
\* squares up to the edge of the board or the first piece.
RECURSIVE slide(_, _, _, _, _)
slide(pos, x, y, dx, dy) ==
    IF ~on_board(x, y) THEN 0
    ELSE IF pos[chess_square(x, y)] # NoPiece THEN 0
    ELSE 1 + slide(pos, x + dx, y + dy, dx, dy)

\* One knight offset: counted when on the board and empty.
jump(pos, x, y) ==
    IF on_board(x, y) /\ pos[chess_square(x, y)] = NoPiece THEN 1 ELSE 0

\* The two loops of calculate_square_mobility over given offsets.
mobility_over(pos, sq, dirs, jumps) ==
    LET col == square_file(sq)
        row == square_rank(sq)
    IN SumSeq([i \in 1 .. Len(dirs) |->
                  slide(pos, col + dirs[i][1], row + dirs[i][2],
                        dirs[i][1], dirs[i][2])])
       + SumSeq([i \in 1 .. Len(jumps) |->
                    jump(pos, col + jumps[i][1], row + jumps[i][2])])

\* The mobility that slides along ranks and files only.
calculate_square_mobility_rook(pos, sq) ==
    mobility_over(pos, sq, rook_directions, knight_moves)

\* The mobility that leaves the knight offsets out.
calculate_square_mobility_queen(pos, sq) ==
    mobility_over(pos, sq, directions, <<>>)

\* The mobility that counts the piece a slide stops at as well.
calculate_square_mobility_capturing(pos, sq) ==
    mobility_over(pos, sq, directions, knight_moves)
        + Cardinality({i \in 1 .. Len(directions) :
              LET n == slide(pos, square_file(sq) + directions[i][1],
                             square_rank(sq) + directions[i][2],
                             directions[i][1], directions[i][2])
              IN on_board(square_file(sq) + (n + 1) * directions[i][1],
                          square_rank(sq) + (n + 1) * directions[i][2])})

calculate_square_mobility(pos, sq) ==
    mobility_over(pos, sq, directions, knight_moves)

\* self.board.pieces(chess.PAWN, color) as the squares holding that pawn.
pieces(pos, pawn) == {sq \in SQUARES : pos[sq] = pawn}

\* A white pawn on the file to the left or to the right, on a lower rank.
white_has_defender_behind(pos, sq) ==
    LET target_rank == square_rank(sq)
        target_file == square_file(sq)
    IN \/ /\ target_file > 0
          /\ \E pawn_square \in pieces(pos, WhitePawn) :
                /\ square_file(pawn_square) = target_file - 1
                /\ square_rank(pawn_square) < target_rank
       \/ /\ target_file < DIMENSION - 1
          /\ \E pawn_square \in pieces(pos, WhitePawn) :
                /\ square_file(pawn_square) = target_file + 1
                /\ square_rank(pawn_square) < target_rank

\* A black pawn on the file to the left or to the right, on a higher rank.
black_has_defender_behind(pos, sq) ==
    LET target_rank == square_rank(sq)
        target_file == square_file(sq)
    IN \/ /\ target_file > 0
          /\ \E pawn_square \in pieces(pos, BlackPawn) :
                /\ square_file(pawn_square) = target_file - 1
                /\ square_rank(pawn_square) > target_rank
       \/ /\ target_file < DIMENSION - 1
          /\ \E pawn_square \in pieces(pos, BlackPawn) :
                /\ square_file(pawn_square) = target_file + 1
                /\ square_rank(pawn_square) > target_rank

\* The weak squares that look for black's pawns on lower ranks, as for
\* white's.
calculate_weak_squares_one_way(pos) ==
    [c \in {WHITE, BLACK} |->
        {sq \in SQUARES :
            \A pawn_square \in
                    pieces(pos, IF c = WHITE THEN WhitePawn ELSE BlackPawn) :
                ~(/\ square_file(pawn_square) \in
                        {square_file(sq) - 1, square_file(sq) + 1}
                  /\ square_rank(pawn_square) < square_rank(sq))}]

\* The weak squares for which a pawn level with the square defends it too.
calculate_weak_squares_level(pos) ==
    [c \in {WHITE, BLACK} |->
        {sq \in SQUARES :
            \A pawn_square \in
                    pieces(pos, IF c = WHITE THEN WhitePawn ELSE BlackPawn) :
                ~(/\ square_file(pawn_square) \in
                        {square_file(sq) - 1, square_file(sq) + 1}
                  /\ IF c = WHITE
                     THEN square_rank(pawn_square) <= square_rank(sq)
                     ELSE square_rank(pawn_square) >= square_rank(sq))}]

calculate_weak_squares(pos) ==
    [c \in {WHITE, BLACK} |->
        IF c = WHITE
        THEN {sq \in SQUARES : ~white_has_defender_behind(pos, sq)}
        ELSE {sq \in SQUARES : ~black_has_defender_behind(pos, sq)}]

(***************************************************************************)
(* Square control.  The piece values are Python floats with one decimal;   *)
(* the model keeps every value and sum in tenths, so 6.5 is 65 and the     *)
(* king's defense 0.1 is 1.  float('inf') is Infinity, which stays what it *)
(* is under addition.                                                      *)
(***************************************************************************)
Infinity == 1000000

fadd(a, b) == IF a = Infinity \/ b = Infinity THEN Infinity ELSE a + b

\* chess.Piece.color and chess.Piece.piece_type of a piece symbol.
color_of(sym) == IF sym \in {"P", "N", "B", "R", "Q", "K"} THEN WHITE ELSE BLACK

piece_type(sym) ==
    CASE sym \in {"P", "p"} -> "pawn"
      [] sym \in {"N", "n"} -> "knight"
      [] sym \in {"B", "b"} -> "bishop"
      [] sym \in {"R", "r"} -> "rook"
      [] sym \in {"Q", "q"} -> "queen"
      [] sym \in {"K", "k"} -> "king"

\* PIECE_VALUES and PIECE_DEFENSE_VALUES, in tenths.
PIECE_VALUES(type) ==
    CASE type = "queen" -> 90
      [] type = "rook" -> 50
      [] type = "bishop" -> 35
      [] type = "knight" -> 30
      [] type = "pawn" -> 10
      [] type = "king" -> Infinity

PIECE_DEFENSE_VALUES(type) ==
    CASE type = "queen" -> 10
      [] type = "rook" -> 50
      [] type = "bishop" -> 65
      [] type = "knight" -> 70
      [] type = "pawn" -> 90
      [] type = "king" -> 1

\* The piece on from reaches sq along one of dirs over empty squares.
reaches(pos, from, sq, dirs) ==
    \E i \in 1 .. Len(dirs), k \in 1 .. (DIMENSION - 1) :
        LET x == square_file(from) + k * dirs[i][1]
            y == square_rank(from) + k * dirs[i][2]
        IN /\ on_board(x, y)
           /\ chess_square(x, y) = sq
           /\ \A j \in 1 .. (k - 1) :
                 pos[chess_square(square_file(from) + j * dirs[i][1],
                                  square_rank(from) + j * dirs[i][2])] = NoPiece

\* The piece on from is one step of steps away from sq.
steps_to(from, sq, steps) ==
    \E i \in 1 .. Len(steps) :
        /\ on_board(square_file(from) + steps[i][1],
                    square_rank(from) + steps[i][2])
        /\ chess_square(square_file(from) + steps[i][1],
                        square_rank(from) + steps[i][2]) = sq

\* Whether the piece on from attacks sq, by the moves of chess.
attacks(pos, from, sq) ==
    LET sym == pos[from]
        type == piece_type(sym)
    IN CASE type = "pawn" ->
              IF color_of(sym) = WHITE
              THEN steps_to(from, sq, <<<<-1, 1>>, <<1, 1>>>>)
              ELSE steps_to(from, sq, <<<<-1, -1>>, <<1, -1>>>>)
         [] type = "knight" -> steps_to(from, sq, knight_moves)
         [] type = "king" -> steps_to(from, sq, directions)
         [] type = "rook" -> reaches(pos, from, sq, rook_directions)
         [] type = "queen" -> reaches(pos, from, sq, directions)
         [] type = "bishop" ->
              reaches(pos, from, sq,
                      <<<<1, 1>>, <<1, -1>>, <<-1, 1>>, <<-1, -1>>>>)

\* The squares the pieces of a color stand on.
pieces_of(pos, color) ==
    {from \in SQUARES : pos[from] # NoPiece /\ color_of(pos[from]) = color}

\* self.board.attackers(color, square), own being the squares of the
\* color's pieces.
attackers(pos, own, sq) ==
    {from \in own : attacks(pos, from, sq)}

\* The += loops over the attackers of a square.
RECURSIVE attack_sum(_, _)
attack_sum(pos, S) ==
    IF S = {} THEN 0
    ELSE LET from == CHOOSE from \in S : TRUE IN
         fadd(PIECE_VALUES(piece_type(pos[from])), attack_sum(pos, S \ {from}))

RECURSIVE defense_sum(_, _)
defense_sum(pos, S) ==
    IF S = {} THEN 0
    ELSE LET from == CHOOSE from \in S : TRUE IN
         PIECE_DEFENSE_VALUES(piece_type(pos[from]))
            + defense_sum(pos, S \ {from})

\* control[square] = (white_attack, white_defense, black_attack,
\* black_defense)
control_of(pos, white_pieces, black_pieces) ==
    [sq \in SQUARES |->
        LET whites == attackers(pos, white_pieces, sq)
            blacks == attackers(pos, black_pieces, sq)
        IN <<attack_sum(pos, whites), defense_sum(pos, whites),
             attack_sum(pos, blacks), defense_sum(pos, blacks)>>]

\* calculate_square_control, for every square of the board.
calculate_square_control(pos) ==
    control_of(pos, pieces_of(pos, WHITE), pieces_of(pos, BLACK))

\* The colors, as (red, green, blue).
LIGHT == <<240, 217, 181>>
DARK == <<181, 136, 99>>
NO_CONTROL == <<60, 60, 60>>
BALANCED_CONTROL == <<150, 100, 150>>

Min(a, b) == IF a < b THEN a ELSE b
Max(a, b) == IF a > b THEN a ELSE b

\* int(defense * 28) of a float defense: the product is taken on doubles
\* and cut to its integer part; for the sums of the values above that is
\* the integer part of the exact product.
int_times_28(defense) == (defense * 28) \div 10

\* The pairs (higher, lower) of defense sums for which the double
\* higher - lower falls short of the exact difference, which is a whole
\* number of halves, so that int(diff * 14) is one less than the exact
\* product: 5.1 - 1.1 is 3.9999999999999996 and int(3.9999999999999996 * 14)
\* is 55.
RoundsBelow ==
    {<<41, 1>>, <<41, 11>>, <<41, 21>>, <<41, 31>>, <<51, 11>>, <<51, 21>>,
     <<51, 31>>, <<61, 21>>, <<61, 31>>, <<71, 31>>}

\* int(diff * 14) with diff = higher - lower, on doubles.
int_diff_times_14(higher, lower) ==
    ((higher - lower) * 14) \div 10
        - (IF <<higher, lower>> \in RoundsBelow THEN 1 ELSE 0)

get_square_color(white_attack, white_defense, black_attack, black_defense) ==
    IF white_attack = 0 /\ black_attack = 0 THEN NO_CONTROL
    ELSE IF white_attack > 0 /\ black_attack > 0 THEN BALANCED_CONTROL
    ELSE IF white_attack > 0
    THEN <<0, Min(255, Max(120, int_times_28(white_defense))), 0>>
    ELSE <<Min(255, Max(120, int_times_28(black_defense))), 0, 0>>

\* has_balanced_control of a square in draw_board.
balanced(c) == c[1] > 0 /\ c[3] > 0

\* square_color of a square in draw_board, from its control c.
controlled_color(c) ==
    LET white_defense == c[2]
        black_defense == c[4]
    IN IF balanced(c)
       THEN IF white_defense > black_defense
            THEN <<0, 120 + Min(135, int_diff_times_14(white_defense,
                                                       black_defense)), 0>>
            ELSE IF black_defense > white_defense
            THEN <<120 + Min(135, int_diff_times_14(black_defense,
                                                    white_defense)), 0, 0>>
            ELSE NO_CONTROL
       ELSE get_square_color(c[1], c[2], c[3], c[4])

\* is_light of the square drawn at (row, col), square = (col, 7 - row).
is_light(sq) ==
    ((DIMENSION - 1 - square_rank(sq)) + square_file(sq)) % 2 = 0

\* The squares the pawns and other pieces are put on: a2 and b2 on the
\* lines of a1, and d3, d5 and e4.
PlacementSquares ==
    {chess_square(0, 1), chess_square(1, 1), chess_square(3, 2),
     chess_square(3, 4), chess_square(4, 3)}

\* A placement from the pieces f puts on some squares.
Placement(f) ==
    [sq \in SQUARES |-> IF sq \in DOMAIN f THEN f[sq] ELSE NoPiece]

\* The placements of at most MaxPieces pieces on those squares.
Positions ==
    {Placement(f) :
        f \in UNION {[S -> PieceKinds] :
                        S \in {T \in SUBSET PlacementSquares :
                                  Cardinality(T) <= MaxPieces}}}

\* Attackers of d4 and the squares they stand on: the white king or a
\* white pawn on c3, the black king on e3, a white rook on d8, the black
\* queen on a4, a white knight on f5, a black pawn on e5.
AttackerChoices ==
    (chess_square(2, 2) :> {"K", "P"}) @@ (chess_square(4, 2) :> {"k"})
    @@ (chess_square(3, 7) :> {"R"}) @@ (chess_square(0, 3) :> {"q"})
    @@ (chess_square(5, 4) :> {"N"}) @@ (chess_square(4, 4) :> {"p"})

\* The placements of any of those attackers.
AttackPositions ==
    {Placement(f) :
        f \in UNION {{g \in [S -> UNION {AttackerChoices[sq] : sq \in S}] :
                        \A sq \in S : g[sq] \in AttackerChoices[sq]} :
                     S \in SUBSET DOMAIN AttackerChoices}}

\* A game not begun, and some placement for draw_board to evaluate.
EvalInit ==
    /\ LET g == init_game("pvp", BLACK, TRUE) IN
       /\ board = g.board
       /\ san_history = g.san_history
       /\ redo_stack = g.redo_stack
       /\ last_move = g.last_move
       /\ history_last_move_san = g.history_last_move_san
       /\ allow_engine_move = g.allow_engine_move
       /\ engine_enabled = g.engine_enabled
       /\ mode = g.mode
       /\ original_mode = g.original_mode
       /\ engine_side = g.engine_side
       /\ engine = g.engine
       /\ engine_thinking = g.engine_thinking
       /\ selected_square = g.selected_square
       /\ valid_moves = g.valid_moves
       /\ plays_in_flight = g.plays_in_flight
    /\ position \in Positions \cup AttackPositions
    /\ show_weak_squares = TRUE
    /\ show_control = TRUE
    /\ square_color = NoColors
    /\ has_balanced_control = {}
    /\ weak_squares = NoWeakSquares
    /\ mobility = NoMobility
    /\ drawn = FALSE

\* The loop of draw_board over the squares: the color of each square and
\* the squares crossed as held by both sides.
draw_squares(control_shown, control) ==
    /\ square_color' =
          [sq \in SQUARES |->
              IF control_shown THEN controlled_color(control[sq])
              ELSE IF is_light(sq) THEN LIGHT ELSE DARK]
    /\ has_balanced_control' =
          IF control_shown
          THEN {sq \in SQUARES : balanced(control[sq])}
          ELSE {}

\* draw_board with the control colors and the weak squares shown or not:
\* the color of each square and the squares crossed as held by both sides,
\* the weak squares of the frame and the mobility written on each square.
draw_board(control_shown, weak_shown) ==
    /\ show_control' = control_shown
    /\ show_weak_squares' = weak_shown
    /\ draw_squares(control_shown,
                    IF control_shown THEN calculate_square_control(position)
                    ELSE <<>>)
    /\ weak_squares' = IF weak_shown THEN calculate_weak_squares(position)
                       ELSE NoWeakSquares
    /\ mobility' = [sq \in SQUARES |-> calculate_square_mobility(position, sq)]
    /\ drawn' = TRUE
    /\ UNCHANGED <<position, board, san_history, redo_stack, last_move,
                   history_last_move_san, allow_engine_move, engine_enabled,
                   mode, original_mode, engine_side, engine, engine_thinking,
                   selected_square, valid_moves, plays_in_flight>>

\* A pass of the loop with no key.
DrawBoard == draw_board(show_control, show_weak_squares)

\* A pass of the loop with K_w: the weak squares are switched, then drawn.
KeyW == draw_board(show_control, ~show_weak_squares)

\* A pass of the loop with K_c: the control colors are switched, then
\* drawn.
KeyC == draw_board(~show_control, show_weak_squares)

EvalNext ==
    \/ DrawBoard
    \/ KeyW
    \/ KeyC

EvalSpec == EvalInit /\ [][EvalNext]_vars

(***************************************************************************)
(* Properties                                                              *)
(***************************************************************************)
\* The notation try_san gave the last ply of the stack when it was played.
TailNotation(b) == try_san(ButLast(b), Last(b))

\* C1: in every reachable state the cached-notation sequence san_history
\* is as long as the move stack, also after a move whose notation failed.
C1_SanHistoryAligned == Len(san_history) = Len(board)

\* C2: whenever a click or an engine reply adds a ply to the move stack,
\* the redo stack is empty afterwards, whatever it held before.
C2_NewPlyClearsUndone ==
    /\ \A square \in Squares :
         LET t == handle_click(Cur, square) IN
         Len(t.board) > Len(board) => t.redo_stack = <<>>
    /\ engine_thinking =>
         \A move \in legal_moves(board) :
             engine_result(Cur, move).redo_stack = <<>>

C2_Witness ==
    /\ redo_stack # <<>>
    /\ \E square \in Squares :
         /\ Len(handle_click(Cur, square).board) = Len(board) + 1
         /\ handle_click(Cur, square).redo_stack = <<>>

\* C3: with a non-empty move stack, undo_move followed at once by redo_move
\* restores the move stack (the position), the redo stack, last_move, the
\* last notation and the notation history.
C3_UndoRedoRoundTrip ==
    Len(board) > 0 =>
        LET t == redo_move(undo_move(Cur)) IN
        /\ t.board = board
        /\ t.redo_stack = redo_stack
        /\ t.last_move = last_move
        /\ t.history_last_move_san = history_last_move_san
        /\ t.san_history = san_history

C3_Witness ==
    /\ Len(board) >= 2
    /\ redo_stack # <<>>
    /\ Len(san_history) < Len(board)
    /\ Len(undo_move(Cur).redo_stack) = Len(redo_stack) + 1
    /\ redo_move(undo_move(Cur)).board = board

\* C4: after every operation last_move and the last notation are the move
\* and the notation of the last ply of the move stack, and both are absent
\* when the stack is empty.
C4_LastIsTail ==
    IF Len(board) = 0
    THEN last_move = NoMove /\ history_last_move_san = NoSan
    ELSE last_move = Last(board) /\ history_last_move_san = TailNotation(board)

\* The states in which undo_to_human_turn is called and takes two plies.
TakesTwoPlies ==
    /\ ~engine_thinking
    /\ mode = "pve"
    /\ turn(board) = engine_side
    /\ Len(board) >= 2

\* C5: after undo_to_human_turn has taken two plies, two redo_move calls
\* put them back in the order they were played, the earlier ply first.
C5_RedoOrderKept ==
    TakesTwoPlies =>
        LET n == Len(board)
            t == undo_to_human_turn(Cur)
            r1 == redo_move(t)
            r2 == redo_move(r1)
        IN /\ t.board = SubSeq(board, 1, n - 2)
           /\ r1.board = SubSeq(board, 1, n - 1)
           /\ r2.board = board

\* C6: with the engine playing black, after one human move and the
\* engine's reply, undo_to_human_turn empties the move stack, adds two
\* entries to the redo stack and leaves the human to move.
C6_UndoesHumanAndReply ==
    (/\ ~engine_thinking
     /\ mode = "pve"
     /\ engine_side = BLACK
     /\ Len(board) = 2
     /\ turn(board) = WHITE) =>
        LET t == undo_to_human_turn(Cur) IN
        /\ t.board = <<>>
        /\ Len(t.redo_stack) = Len(redo_stack) + 2
        /\ turn(t.board) # t.engine_side

\* The intents other than a click on the board.
Intents(s) ==
    {click_back(s), click_forward(s), click_engine(s), key_z(s), key_r(s)}

\* The loop asks the engine for a move at the end of an iteration.
Requests(s) == run_engine_step(s).plays_in_flight > s.plays_in_flight

\* The states in which the K_z handler calls undo_to_human_turn.
CallsUndoToHumanTurn ==
    /\ ~engine_thinking
    /\ mode = "pve"
    /\ Len(board) >= 2

\* C7 as claimed: after undo_to_human_turn allow_engine_move is false and
\* no reply is requested, whatever one or two intents other than a move
\* on the board follow.
C7_BlockedUntilHumanMove ==
    CallsUndoToHumanTurn =>
        LET t == undo_to_human_turn(Cur) IN
        /\ ~t.allow_engine_move
        /\ ~Requests(t)
        /\ \A u \in Intents(t) :
             /\ ~Requests(u)
             /\ \A v \in Intents(u) : ~Requests(v)

\* A step of the K_z handler through undo_to_human_turn.
UndoToHumanTurnStep ==
    /\ CallsUndoToHumanTurn
    /\ Becomes(clear_selection(undo_to_human_turn(Cur)))

\* A click that plays a move.
HumanMoveStep == ClickSquare /\ Len(board') = Len(board) + 1

\* A click on the engine button that switches the engine on.
EnableEngineStep == ClickEngine /\ engine_enabled'

\* C7 as amended: undo_to_human_turn leaves allow_engine_move false; while
\* it is false no reply is requested or in flight; and it becomes true
\* again only by a human move, a reset or switching the engine on, never
\* by undo, redo or an engine step.
C7_BlockedUntilMoveResetOrEnable ==
    [][/\ UndoToHumanTurnStep => ~allow_engine_move'
       /\ ~allow_engine_move =>
            /\ ~engine_thinking
            /\ ~engine_thinking'
            /\ plays_in_flight' = plays_in_flight
       /\ (~allow_engine_move /\ allow_engine_move') =>
            (HumanMoveStep \/ KeyR \/ EnableEngineStep)]_vars

C7_Witness ==
    /\ mode = "pve"
    /\ engine
    /\ engine_enabled
    /\ ~allow_engine_move
    /\ turn(board) = engine_side
    /\ ~is_game_over(board)
    /\ redo_stack # <<>>

\* C8: at the end of a loop iteration a reply is requested exactly when
\* the mode is pve, the engine's side is to move, the game is not over,
\* allow_engine_move and engine_enabled hold and no reply is in flight.
C8_RequestIffEligible ==
    Requests(Cur) <=>
        /\ mode = "pve"
        /\ turn(board) = engine_side
        /\ ~is_game_over(board)
        /\ allow_engine_move
        /\ engine_enabled
        /\ ~engine_thinking

\* C9: at most one call of engine.play is in flight; while one is, the
\* loop's engine step changes nothing; its return adds at most one ply and,
\* with a move, clears engine_thinking.
C9_OneReplyInFlight ==
    /\ plays_in_flight <= 1
    /\ engine_thinking <=> plays_in_flight = 1
    /\ engine_thinking =>
         /\ run_engine_step(Cur) = Cur
         /\ \A move \in legal_moves(board) \cup {NoMove} :
              LET t == engine_result(Cur, move) IN
              /\ Len(t.board) <= Len(board) + 1
              /\ move # NoMove =>
                   /\ t.board = Append(board, move)
                   /\ ~t.engine_thinking
                   /\ t.plays_in_flight = 0

C9_Witness ==
    /\ engine_thinking
    /\ plays_in_flight = 1
    /\ mode = "pve"
    /\ turn(board) = engine_side
    /\ allow_engine_move
    /\ engine_enabled
    /\ legal_moves(board) # {}

\* What K_r does to the history.
ResetClearsHistory(t) ==
    /\ t.board = <<>>
    /\ t.redo_stack = <<>>
    /\ t.san_history = <<>>
    /\ t.last_move = NoMove
    /\ t.history_last_move_san = NoSan

\* C10 as claimed: the reset empties the history and changes no field of
\* the gate.
C10_ResetLeavesGate ==
    ~engine_thinking =>
        LET t == key_r(Cur) IN
        /\ ResetClearsHistory(t)
        /\ t.mode = mode
        /\ t.original_mode = original_mode
        /\ t.engine_side = engine_side
        /\ t.engine_enabled = engine_enabled
        /\ t.allow_engine_move = allow_engine_move
        /\ t.engine_thinking = engine_thinking

\* C10 as amended: the reset empties the history, sets allow_engine_move
\* and changes no other field of the gate.
C10_ResetAllowsEngine ==
    ~engine_thinking =>
        LET t == key_r(Cur) IN
        /\ ResetClearsHistory(t)
        /\ t.mode = mode
        /\ t.original_mode = original_mode
        /\ t.engine_side = engine_side
        /\ t.engine_enabled = engine_enabled
        /\ t.allow_engine_move
        /\ t.engine_thinking = engine_thinking

C10_Witness ==
    /\ ~engine_thinking
    /\ ~allow_engine_move
    /\ Len(board) >= 2
    /\ redo_stack # <<>>
    /\ history_last_move_san # NoSan
    /\ key_r(Cur).allow_engine_move
    /\ key_r(Cur).redo_stack = <<>>

\* The history and the position of t are those of s.
SameHistory(s, t) ==
    /\ t.board = s.board
    /\ t.san_history = s.san_history
    /\ t.redo_stack = s.redo_stack
    /\ t.last_move = s.last_move
    /\ t.history_last_move_san = s.history_last_move_san

\* The engine button is drawn and handled: the session began as "pve".
EngineButtonShown == ~engine_thinking /\ original_mode = "pve"

\* C11: the disabling click on the engine button sets engine_enabled
\* false, mode "pvp" and allow_engine_move false; the enabling click, after
\* it or from any disabled state, sets engine_enabled true, mode =
\* original_mode and allow_engine_move true; neither changes the move stack,
\* san_history, redo_stack, last_move or history_last_move_san.
C11_ToggleRestoresMode ==
    /\ (EngineButtonShown /\ engine_enabled) =>
         LET d == click_engine(Cur)
             e == click_engine(click_engine(Cur)) IN
         /\ ~d.engine_enabled
         /\ d.mode = "pvp"
         /\ ~d.allow_engine_move
         /\ SameHistory(Cur, d)
         /\ e.engine_enabled
         /\ e.mode = original_mode
         /\ e.allow_engine_move
         /\ SameHistory(Cur, e)
    /\ (EngineButtonShown /\ ~engine_enabled) =>
         LET e == click_engine(Cur) IN
         /\ e.engine_enabled
         /\ e.mode = original_mode
         /\ e.allow_engine_move
         /\ SameHistory(Cur, e)

C11_Witness ==
    /\ EngineButtonShown
    /\ engine_enabled
    /\ mode = "pve"
    /\ allow_engine_move
    /\ Len(board) >= 1
    /\ redo_stack # <<>>
    /\ history_last_move_san # NoSan
    /\ click_engine(Cur).mode = "pvp"
    /\ click_engine(click_engine(Cur)).mode = "pve"

PlyKeptWithoutNotation(t, move) ==
    /\ t.board = Append(board, move)
    /\ Len(t.san_history) = Len(san_history) + 1
    /\ t.redo_stack = <<>>
    /\ t.history_last_move_san = NoSan

\* C13: when board.san raises for a legal move, of a click or of the
\* engine, the move is pushed, san_history grows by one entry, redo_stack is
\* emptied and history_last_move_san becomes None.
C13_FailedNotationKeepsPly ==
    /\ ~engine_thinking =>
         \A square \in Squares :
            LET move == <<selected_square, square>> IN
            (/\ ~(mode = "pve" /\ turn(board) = engine_side)
             /\ selected_square # NoSquare
             /\ move \in legal_moves(board)
             /\ san_raises(board, move))
                => PlyKeptWithoutNotation(handle_click(Cur, square), move)
    /\ engine_thinking =>
         \A move \in legal_moves(board) :
            san_raises(board, move)
                => PlyKeptWithoutNotation(engine_result(Cur, move), move)

\* C14: when engine.play returns no move, engine_thinking is cleared and
\* the move stack, san_history, redo_stack (not emptied), last_move and
\* history_last_move_san are unchanged.
C14_NoMoveKeepsHistory ==
    engine_thinking =>
        LET t == engine_result(Cur, NoMove) IN
        /\ ~t.engine_thinking
        /\ t.plays_in_flight = 0
        /\ SameHistory(Cur, t)

C14_Witness ==
    /\ engine_thinking
    /\ redo_stack # <<>>
    /\ Len(board) >= 1
    /\ history_last_move_san # NoSan
    /\ ~engine_result(Cur, NoMove).engine_thinking
    /\ engine_result(Cur, NoMove).redo_stack = redo_stack

\* The fields of the gate of t are those of s.
SameGate(s, t) ==
    /\ t.mode = s.mode
    /\ t.original_mode = s.original_mode
    /\ t.engine_side = s.engine_side
    /\ t.engine_enabled = s.engine_enabled
    /\ t.allow_engine_move = s.allow_engine_move
    /\ t.engine_thinking = s.engine_thinking

\* In "pve" the engine is to move.
EnginesTurn == mode = "pve" /\ turn(board) = engine_side

\* A click on square with a square selected is an attempt at the move
\* from the selected square to it; the attempt is accepted when the move is
\* legal and it is not the engine's turn.
Accepted(square) ==
    /\ <<selected_square, square>> \in legal_moves(board)
    /\ ~EnginesTurn

\* t has the selection the attempt's rejection is said to leave: square
\* when it holds a piece of the side to move, else none.
FreshSelection(t, square) ==
    IF piece_at(board, square) = turn(board)
    THEN /\ t.selected_square = square
         /\ t.valid_moves = {m \in legal_moves(board) : m[1] = square}
    ELSE /\ t.selected_square = NoSquare
         /\ t.valid_moves = {}

\* C15 as claimed: an attempt changes the position or the history only if
\* accepted; a rejected one leaves history and gate alone and makes the
\* clicked square the selection when it holds a piece of the side to move,
\* else clears the selection.
C15_RejectedAttemptReselects ==
    (~engine_thinking /\ selected_square # NoSquare) =>
        \A square \in Squares :
            LET t == handle_click(Cur, square) IN
            /\ ~SameHistory(Cur, t) => Accepted(square)
            /\ ~Accepted(square) =>
                 /\ SameHistory(Cur, t)
                 /\ SameGate(Cur, t)
                 /\ FreshSelection(t, square)

\* C15 as amended: as claimed, but an attempt made in "pve" on the
\* engine's turn leaves the selection too as it was.
C15_RejectedAttemptKeepsHistory ==
    (~engine_thinking /\ selected_square # NoSquare) =>
        \A square \in Squares :
            LET t == handle_click(Cur, square) IN
            /\ ~SameHistory(Cur, t) => Accepted(square)
            /\ ~Accepted(square) =>
                 /\ SameHistory(Cur, t)
                 /\ SameGate(Cur, t)
                 /\ IF EnginesTurn
                    THEN /\ t.selected_square = selected_square
                         /\ t.valid_moves = valid_moves
                    ELSE FreshSelection(t, square)

\* An attempt is turned away on the turn of a started engine, with a
\* selection left from before the engine was switched on again.
C15_Witness ==
    /\ ~engine_thinking
    /\ selected_square # NoSquare
    /\ EnginesTurn
    /\ engine
    /\ \E square \in Squares :
          /\ piece_at(board, square) # turn(board)
          /\ ~Accepted(square)
          /\ handle_click(Cur, square) = Cur

\* C16: undo_move with an empty move stack and redo_move with an empty
\* redo_stack change nothing: history, position and gate stay as they are.
\* The back and forward buttons that call them leave history and gate
\* alone as well.
C16_EmptyUndoRedoNoOp ==
    /\ Len(board) = 0 =>
         /\ undo_move(Cur) = Cur
         /\ SameHistory(Cur, click_back(Cur))
         /\ SameGate(Cur, click_back(Cur))
    /\ Len(redo_stack) = 0 =>
         /\ redo_move(Cur) = Cur
         /\ SameHistory(Cur, click_forward(Cur))
         /\ SameGate(Cur, click_forward(Cur))

\* Both stacks are empty, the engine has been switched off and a square is
\* selected.
C16_Witness ==
    /\ ~engine_thinking
    /\ Len(board) = 0
    /\ Len(redo_stack) = 0
    /\ ~engine_enabled
    /\ selected_square # NoSquare
    /\ undo_move(Cur) = Cur
    /\ redo_move(Cur) = Cur

\* The number of plies undo_to_human_turn is said to remove.
PliesToRemove ==
    IF turn(board) = engine_side /\ Len(board) >= 2 THEN 2
    ELSE IF Len(board) >= 1 THEN 1
    ELSE 0

A1 == chess_square(0, 0)
A2 == chess_square(0, 1)
D4 == chess_square(3, 3)
D5 == chess_square(3, 4)
E4 == chess_square(4, 3)

\* C18 as claimed: on an empty board the mobility drawn on a1 is 16.
C18_CornerMobilitySixteen ==
    (drawn /\ position = EmptyPosition) => mobility[A1] = 16

\* C18 as amended: on an empty board the mobility drawn on a1 is 23, the
\* 21 squares of its file, rank and diagonal and 2 knight destinations.
C18_CornerMobilityTwentyThree ==
    (drawn /\ position = EmptyPosition) =>
        /\ mobility[A1] = 23
        /\ mobility_over(position, A1, directions, <<>>) = 21
        /\ mobility_over(position, A1, <<>>, knight_moves) = 2

C18_Witness ==
    /\ drawn
    /\ position = EmptyPosition
    /\ mobility[A1] = 23

\* C19: on an empty board the mobility drawn on d4 is 35, 27 squares
\* reached by sliding and 8 knight destinations.
C19_CentreMobilityThirtyFive ==
    (drawn /\ position = EmptyPosition) =>
        /\ mobility[D4] = 35
        /\ mobility_over(position, D4, directions, <<>>) = 27
        /\ mobility_over(position, D4, <<>>, knight_moves) = 8

C19_Witness ==
    /\ drawn
    /\ position = EmptyPosition
    /\ mobility[D4] = 35

\* A black pawn on d5, a white pawn on a2, and nothing else.
PawnsD5A2 == [EmptyPosition EXCEPT ![D5] = BlackPawn, ![A2] = WhitePawn]

\* C20 as claimed: with only a black pawn on d5 and a white pawn on a2,
\* the weak squares drawn hold e4 for white and for black.
C20_E4WeakForBoth ==
    (drawn /\ show_weak_squares /\ position = PawnsD5A2) =>
        /\ E4 \in weak_squares[WHITE]
        /\ E4 \in weak_squares[BLACK]

\* C20 as amended: with that placement e4 is weak for white and not weak
\* for black, whose pawn on d5 stands on a file beside it on a higher rank.
C20_E4WeakForWhiteOnly ==
    (drawn /\ show_weak_squares /\ position = PawnsD5A2) =>
        /\ E4 \in weak_squares[WHITE]
        /\ E4 \notin weak_squares[BLACK]

C20_Witness ==
    /\ drawn
    /\ show_weak_squares
    /\ position = PawnsD5A2
    /\ E4 \in weak_squares[WHITE]
    /\ E4 \notin weak_squares[BLACK]

\* The pawn of a color.
PawnOf(c) == IF c = WHITE THEN WhitePawn ELSE BlackPawn

\* The rule of the weak square: no pawn of color c stands on a file beside
\* sq at a rank strictly lower (white) or strictly higher (black).
WeakByRule(pos, c, sq) ==
    ~ \E p \in SQUARES :
        /\ pos[p] = PawnOf(c)
        /\ \/ square_file(p) = square_file(sq) - 1
           \/ square_file(p) = square_file(sq) + 1
        /\ IF c = WHITE
           THEN square_rank(p) < square_rank(sq)
           ELSE square_rank(p) > square_rank(sq)

\* pos with everything but the pawns of color c taken off.
OnlyPawnsOf(pos, c) ==
    [sq \in SQUARES |-> IF pos[sq] = PawnOf(c) THEN pos[sq] ELSE NoPiece]

\* C21: for every placement, square and color, the square is in the
\* color's weak squares exactly when the rule says so; the weak squares of
\* a color are those of the placement with only that color's pawns left on
\* it, so the other color and the other pieces have no part in them.
C21_WeakIffNoPawnBehind ==
    \A c \in {WHITE, BLACK} :
        LET weak == calculate_weak_squares(position)[c] IN
        /\ \A sq \in SQUARES : sq \in weak <=> WeakByRule(position, c, sq)
        /\ weak = calculate_weak_squares(OnlyPawnsOf(position, c))[c]
        /\ (drawn /\ show_weak_squares) => weak_squares[c] = weak

\* Pawns of both colors are on the board, and the weak squares drawn hold
\* a square for both colors, one for white only, one for black only and
\* leave one out for both.
C21_Witness ==
    /\ drawn
    /\ show_weak_squares
    /\ pieces(position, WhitePawn) # {}
    /\ pieces(position, BlackPawn) # {}
    /\ \E sq \in SQUARES :
          sq \in weak_squares[WHITE] /\ sq \in weak_squares[BLACK]
    /\ \E sq \in SQUARES :
          sq \in weak_squares[WHITE] /\ sq \notin weak_squares[BLACK]
    /\ \E sq \in SQUARES :
          sq \notin weak_squares[WHITE] /\ sq \in weak_squares[BLACK]
    /\ \E sq \in SQUARES :
          sq \notin weak_squares[WHITE] /\ sq \notin weak_squares[BLACK]

\* The intensity the rule gives the color with the higher defense, the
\* defenses in tenths: 120 + min(135, |defenseDiff| x 14), as a color
\* component, so without its fraction.
ClaimedIntensity(higher, lower) ==
    (1200 + Min(1350, (higher - lower) * 14)) \div 10

\* Whether a color is the neutral one or one of a single component within
\* 120..255.
IntensityInRange(color) ==
    \/ color = NO_CONTROL
    \/ color[1] = 0 /\ color[2] \in 120 .. 255 /\ color[3] = 0
    \/ color[1] \in 120 .. 255 /\ color[2] = 0 /\ color[3] = 0

\* The intensity the rule gives the only color that attacks a square: its
\* defense x 28, kept within 120..255.
ClaimedAlone(defense) == Min(255, Max(120, (defense * 28) \div 10))

\* A square of control c is drawn as the rule classifies it, which leaves
\* its color no other input.
SquareAsClaimed(sq, c) ==
    /\ (c[1] = 0 /\ c[3] = 0) => square_color[sq] = NO_CONTROL
    /\ (c[1] > 0 /\ c[3] > 0) =>
          /\ sq \in has_balanced_control
          /\ c[2] > c[4] =>
                square_color[sq] = <<0, ClaimedIntensity(c[2], c[4]), 0>>
          /\ c[4] > c[2] =>
                square_color[sq] = <<ClaimedIntensity(c[4], c[2]), 0, 0>>
          /\ c[2] = c[4] => square_color[sq] = NO_CONTROL
    /\ (c[1] > 0 /\ c[3] = 0) =>
          square_color[sq] = <<0, ClaimedAlone(c[2]), 0>>
    /\ (c[1] = 0 /\ c[3] > 0) =>
          square_color[sq] = <<ClaimedAlone(c[4]), 0, 0>>
    /\ IntensityInRange(square_color[sq])

ClassifiedAsClaimed(control) ==
    \A sq \in SQUARES : SquareAsClaimed(sq, control[sq])

\* C22: with the control colors shown, the color drawn on a square follows
\* from its control alone: no attackers of either color give the neutral
\* color, so every square of an empty board is neutral; attackers of both
\* colors put the square among the contested ones, the color with the
\* strictly higher defense is drawn with intensity
\* 120 + min(135, |defenseDiff| x 14) and equal defenses give the neutral
\* color; every intensity is within 120..255.
C22_ClassifiedByControl ==
    (drawn /\ show_control) =>
        /\ ClassifiedAsClaimed(calculate_square_control(position))
        /\ position = EmptyPosition =>
              \A sq \in SQUARES : square_color[sq] = NO_CONTROL

D3 == chess_square(3, 2)
B4 == chess_square(1, 3)

\* The offsets of one step in each of the 8 sliding directions, and the
\* knight's.
SlidingSteps == {d \in (-1 .. 1) \X (-1 .. 1) : d # <<0, 0>>}
KnightSteps ==
    {d \in (-2 .. 2) \X (-2 .. 2) : d[1] * d[1] + d[2] * d[2] = 5}

\* The rule of the mobility: the empty squares in a sliding direction with
\* only empty squares before them, and the knight destinations on the
\* board that are empty.
MobilityByRule(pos, sq) ==
    LET col == square_file(sq)
        row == square_rank(sq)
    IN Cardinality({dk \in SlidingSteps \X (1 .. DIMENSION - 1) :
           \A j \in 1 .. dk[2] :
              /\ on_board(col + j * dk[1][1], row + j * dk[1][2])
              /\ pos[chess_square(col + j * dk[1][1],
                                  row + j * dk[1][2])] = NoPiece})
       + Cardinality({d \in KnightSteps :
             /\ on_board(col + d[1], row + d[2])
             /\ pos[chess_square(col + d[1], row + d[2])] = NoPiece})

\* The placement with a pawn of one color for every piece, and the
\* placement with one square emptied.
Occupancy(pos) ==
    [sq \in SQUARES |-> IF pos[sq] = NoPiece THEN NoPiece ELSE WhitePawn]
Without(pos, sq) == [pos EXCEPT ![sq] = NoPiece]

\* C23: the mobility drawn on every square of every placement is the
\* number of empty squares reached in the 8 sliding directions before the
\* edge or the first piece, which is not counted, plus the number of empty
\* knight destinations on the board; it is the same when every piece is
\* taken for a white pawn and when the square itself is emptied.  The side
\* to move is no input of calculate_square_mobility.
C23_MobilityByOccupancy ==
    drawn =>
        \A sq \in SQUARES :
            /\ mobility[sq] = MobilityByRule(position, sq)
            /\ mobility[sq] = calculate_square_mobility(Occupancy(position), sq)
            /\ mobility[sq] = calculate_square_mobility(Without(position, sq), sq)

\* A white knight on d3 and a black pawn on d5: the slide from d3, itself
\* occupied, stops before d5, and both are knight destinations of b4.
C23_Witness ==
    /\ drawn
    /\ position = [EmptyPosition EXCEPT ![D3] = "N", ![D5] = BlackPawn]
    /\ mobility[D3] = 29
    /\ mobility[B4] = 27

\* The engine plays, it is its turn in a game not over, and it is not
\* allowed to move: clicks on the board are turned away and no reply is
\* requested.
Stuck ==
    /\ mode = "pve"
    /\ engine_enabled
    /\ ~is_game_over(board)
    /\ turn(board) = engine_side
    /\ ~allow_engine_move

\* C24: in "pve" with the engine enabled and the game not over, either the
\* human is to move or allow_engine_move holds: no moves, undos and redos
\* lead to the engine's turn with allow_engine_move false.
C24_NoStuckState == ~Stuck

====
